---- MODULE Spec2Model ----
(***************************************************************************)
(* Model of the USB gamepad driver sb_gamepad.py (device scan, rate        *)
(* limited polling generator) and of its consumer gamepad_loop in code.py. *)
(***************************************************************************)
EXTENDS Integers, Sequences, FiniteSets, TLC

VARIABLES
    dev,            \* endpoint / descriptor facts of the polled device
    gen,            \* locals of the running int0_read_generator
    out,            \* what the last next() on the generator produced
    rd,             \* number of dev_read calls issued by the last next()
    lastIn,         \* which path the last next() took
    consec,         \* consecutive read timeouts seen on the bus
    lastRep,        \* bytes of the last filtered report handed to the dedup test
    attached,       \* devices core.find(find_all=True) enumerates, in order
    device_cache,   \* keys of the caller's device_cache dictionary
    result,         \* what the last find_usb_device call returned or raised
    sessions,       \* cache keys of the devices returned as InputDevice so far
    unplugged,      \* devices that were attached and are unplugged now
    skipped,        \* keys of the devices behind an all-zeros descriptor
    hs,             \* progress of a device initialization handshake
    raw,            \* a filtered report handed to a normalize generator
    norm,           \* the value the normalize generator yields for it
    clk,            \* locals of an elapsed_ms_generator and what it yielded last
    tasks           \* the gamepad_loop tasks of the two players

vars == <<dev, gen, out, rd, lastIn, consec, lastRep, attached, device_cache,
          result, sessions, unplugged, skipped, hs, raw, norm, clk, tasks>>

pollVars == <<dev, gen, out, rd, lastIn, consec, lastRep>>
scanVars == <<attached, device_cache, result, sessions, unplugged, skipped>>
initVars == <<hs>>
normVars == <<raw, norm>>
clockVars == <<clk>>
taskVars == <<tasks>>

----------------------------------------------------------------------------
(* Program constants *)

TYPE_SWITCH_PRO == 1
TYPE_ADAFRUIT_SNES == 2
TYPE_8BITDO_ZERO2 == 3
TYPE_XINPUT == 4
TYPE_BOOT_KEYBOARD == 5
TYPE_POWERA_WIRED == 6

TOO_MANY_GAMEPAD_TIMEOUTS == 99
TOO_MANY_KEYBOARD_TIMEOUTS == 9999

\* ticks_ms() counts milliseconds modulo 2**29
TicksPeriod == 536870912
\* mask = 0x3fffffff
mask == 1073741823
\* max_packet = min(64, wMaxPacketSize)
MaxPacketCap == 64
\* report ID of a Switch Pro input report (0x30)
SwitchProReportId == 48

\* no elapsed_ms_generator under observation
NoClock == [t0 |-> 0, delta |-> 0, elapsed |-> 0, n |-> 0]

\* no gamepad_loop task under observation
NoTasks == <<>>

SPEED_LOW == "SPEED_LOW"
SPEED_FULL == "SPEED_FULL"
SPEED_HIGH == "SPEED_HIGH"

----------------------------------------------------------------------------
(* Bounds of the model *)

\* how many of the reports of ReportPool a device may send
NumReports == 3

\* values the millisecond clock is sampled at (both sides of the wrap)
ClockSamples == {0, 1, TicksPeriod - 1}

Min(a, b) == IF a < b THEN a ELSE b

Zeros(n) == [i \in 1..n |-> 0]

\* Packets a device may deliver on its interrupt IN endpoint.
ReportPool ==
    << <<48, 0, 0, 8, 0, 0, 0, 0>>,
       <<48, 1, 0, 8, 0, 0, 0, 0>>,
       <<0, 0, 15>>,
       <<0, 0, 0, 0, 0, 0, 0, 0>>,
       <<48, 0, 0, 0, 2, 0, 0, 0>> >>

KeyboardReports == { <<0, 0, 0, 0, 0, 0, 0, 0>>, <<0, 0, 26, 0, 0, 0, 0, 0>> }

Reports(dev_type) ==
    IF dev_type = TYPE_BOOT_KEYBOARD
    THEN KeyboardReports
    ELSE { ReportPool[i] : i \in 1..Min(NumReports, Len(ReportPool)) }

\* Endpoint facts of the devices that are polled.
Configs ==
    { [dev_type |-> TYPE_SWITCH_PRO,    speed |-> SPEED_FULL, bInterval |-> 3, wMaxPacketSize |-> 8],
      [dev_type |-> TYPE_8BITDO_ZERO2,  speed |-> SPEED_FULL, bInterval |-> 2, wMaxPacketSize |-> 8],
      [dev_type |-> TYPE_XINPUT,        speed |-> SPEED_HIGH, bInterval |-> 4, wMaxPacketSize |-> 8],
      [dev_type |-> TYPE_BOOT_KEYBOARD, speed |-> SPEED_LOW,  bInterval |-> 1, wMaxPacketSize |-> 8] }

----------------------------------------------------------------------------
(* elapsed_ms_generator *)

\* x & mask for a Python int x of either sign (mask + 1 is a power of two)
AndMask(x) == x % (mask + 1)

\* delta = (t1 - t0) & mask
ElapsedDelta(t0, t1) == AndMask(t1 - t0)

\* milliseconds that really passed between two clock samples
TrueElapsed(t0, t1) == (t1 - t0) % TicksPeriod

----------------------------------------------------------------------------
(* int0_read_generator: set-up *)

Pow2(n) == IF n <= 0 THEN 1 ELSE 2 ^ n

\* interval = bInterval, or (2 << (bInterval - 1)) >> 3 at high speed
Interval(d) ==
    IF d.speed = SPEED_HIGH
    THEN (2 * Pow2(d.bInterval - 1)) \div 8
    ELSE d.bInterval

\* poll_target = (interval * 3) >> 2
PollTarget(interval) == (interval * 3) \div 4

MaxTimeouts(dev_type) ==
    IF dev_type = TYPE_BOOT_KEYBOARD
    THEN TOO_MANY_KEYBOARD_TIMEOUTS
    ELSE TOO_MANY_GAMEPAD_TIMEOUTS

MaxPacket(d) == Min(MaxPacketCap, d.wMaxPacketSize)

\* A memoryview is a window [lo, hi) on one of the two buffers.
View(buf, lo, hi) == [buf |-> buf, lo |-> lo, hi |-> hi]

\* The generator's locals when its loop is first entered; t0 is the first
\* clock sample elapsed_ms_generator takes.
NewGenerator(d, t0) ==
    [ interval     |-> Interval(d),
      poll_target  |-> PollTarget(Interval(d)),
      max_timeouts |-> MaxTimeouts(d.dev_type),
      odd          |-> TRUE,
      data_odd     |-> Zeros(MaxPacket(d)),
      data_even    |-> Zeros(MaxPacket(d)),
      prev_report  |-> View("even", 0, MaxPacket(d)),
      poll_ms      |-> 0,
      t0           |-> t0,
      started      |-> FALSE,
      timeouts     |-> 0,
      alive        |-> TRUE ]

----------------------------------------------------------------------------
(* Per-type filter_fn lambdas of input_event_generator *)

Max(a, b) == IF a > b THEN a ELSE b

\* d[a:b] of a view of n bytes: the window [lo, hi) it selects
Slice(n, a, b) == [sig |-> TRUE, lo |-> Min(a, n), hi |-> Max(Min(a, n), Min(b, n))]

NoSignal == [sig |-> FALSE, lo |-> 0, hi |-> 0]

\* filter_fn(mv[:n]) where buf holds the packet just read
FilterFn(dev_type, buf, n) ==
    CASE dev_type = TYPE_SWITCH_PRO ->
             IF buf[1] # SwitchProReportId THEN NoSignal ELSE Slice(n, 3, 6)
      [] dev_type = TYPE_ADAFRUIT_SNES -> Slice(n, 0, 7)
      [] dev_type = TYPE_8BITDO_ZERO2  -> Slice(n, 0, 3)
      [] dev_type = TYPE_POWERA_WIRED  -> Slice(n, 0, 3)
      [] dev_type = TYPE_XINPUT        -> Slice(n, 2, 4)
      [] OTHER                         -> Slice(n, 0, n)

----------------------------------------------------------------------------
(* int0_read_generator: one pass of the polling loop *)

\* the buffer the next dev_read writes into
CurrBuf(g) == IF g.odd THEN "odd" ELSE "even"

BufOf(g, name) == IF name = "odd" THEN g.data_odd ELSE g.data_even

\* bytes a memoryview shows
ViewBytes(g, v) == SubSeq(BufOf(g, v.buf), v.lo + 1, v.hi)

\* dev_read stores the n bytes of the packet at the start of the buffer
ReadInto(buf, packet) ==
    [i \in 1..Len(buf) |-> IF i <= Len(packet) THEN packet[i] ELSE buf[i]]

StoreRead(g, packet) ==
    IF g.odd
    THEN [g EXCEPT !.data_odd = ReadInto(g.data_odd, packet)]
    ELSE [g EXCEPT !.data_even = ReadInto(g.data_even, packet)]

\* a loop head that samples the clock but adds nothing to the accumulator
Accumulate_NoAdd(g, t1) == [g EXCEPT !.t0 = t1, !.started = TRUE]

\* poll_ms += next(poll_dt), the clock reading t1
Accumulate(g, t1) ==
    [g EXCEPT !.poll_ms = g.poll_ms + ElapsedDelta(g.t0, t1), !.t0 = t1, !.started = TRUE]

\* if poll_ms < poll_target
TooSoon(g) == g.poll_ms < g.poll_target

\* a rate-limit branch that also clears the accumulator
RateLimited_Reset(g) == [g EXCEPT !.poll_ms = 0]

\* yield None; continue
RateLimited(g) == g

\* a read branch that forgets to clear the accumulator
StartRead_NoReset(g) == g

\* else: poll_ms = 0
StartRead(g) == [g EXCEPT !.poll_ms = 0]

\* report == prev_report on two memoryviews: same length, same bytes
SameReport(g, f) == ViewBytes(g, View(CurrBuf(g), f.lo, f.hi)) = ViewBytes(g, g.prev_report)

\* an emit that yields the report but keeps the old prev_report
EmitReport_KeepPrev(g, f) == [g EXCEPT !.odd = ~g.odd]

\* an emit that retains the report but keeps reading into the same buffer
EmitReport_NoSwap(g, f) ==
    [g EXCEPT !.prev_report = View(CurrBuf(g), f.lo, f.hi)]

\* prev_report = report; odd = not odd; yield report
EmitReport(g, f) ==
    [g EXCEPT !.prev_report = View(CurrBuf(g), f.lo, f.hi), !.odd = ~g.odd]

\* no filtered report (filter_fn returned None, or nothing read yet)
NoReport == <<-1>>

\* a try body that clears the timeout counter only when it emits
OnReport_ResetOnEmitOnly(g, dev_type, packet) ==
    LET g1 == StoreRead(g, packet)
        f  == FilterFn(dev_type, BufOf(g1, CurrBuf(g1)), Len(packet))
    IN  IF (~f.sig) \/ SameReport(g1, f)
        THEN [g |-> g1, y |-> "Suppress", rep |-> IF f.sig THEN ViewBytes(g1, View(CurrBuf(g1), f.lo, f.hi)) ELSE NoReport]
        ELSE [g |-> [EmitReport(g1, f) EXCEPT !.timeouts = 0], y |-> "Emit", rep |-> ViewBytes(g1, View(CurrBuf(g1), f.lo, f.hi))]

\* a try body that advances the active buffer on a suppressed duplicate too
OnReport_SwapOnSuppress(g, dev_type, packet) ==
    LET g1 == [StoreRead(g, packet) EXCEPT !.timeouts = 0]
        f  == FilterFn(dev_type, BufOf(g1, CurrBuf(g1)), Len(packet))
    IN  IF (~f.sig) \/ SameReport(g1, f)
        THEN [g |-> [g1 EXCEPT !.odd = ~g1.odd], y |-> "Suppress", rep |-> IF f.sig THEN ViewBytes(g1, View(CurrBuf(g1), f.lo, f.hi)) ELSE NoReport]
        ELSE [g |-> EmitReport(g1, f), y |-> "Emit", rep |-> ViewBytes(g1, View(CurrBuf(g1), f.lo, f.hi))]

\* the try body after a dev_read that returned n = Len(packet) bytes
OnReport(g, dev_type, packet) ==
    LET g1 == [StoreRead(g, packet) EXCEPT !.timeouts = 0]
        f  == FilterFn(dev_type, BufOf(g1, CurrBuf(g1)), Len(packet))
    IN  IF (~f.sig) \/ SameReport(g1, f)
        THEN [g |-> g1, y |-> "Suppress", rep |-> IF f.sig THEN ViewBytes(g1, View(CurrBuf(g1), f.lo, f.hi)) ELSE NoReport]
        ELSE [g |-> EmitReport(g1, f), y |-> "Emit", rep |-> ViewBytes(g1, View(CurrBuf(g1), f.lo, f.hi))]

\* a timeout handler that gives up when the counter reaches the ceiling
OnTimeout_AtCeiling(g) ==
    LET g1 == [g EXCEPT !.timeouts = g.timeouts + 1]
    IN  IF g1.timeouts >= g1.max_timeouts
        THEN [g |-> [g1 EXCEPT !.alive = FALSE], y |-> "Disconnected"]
        ELSE [g |-> g1, y |-> "Suppress"]

\* a timeout handler that reports the disconnect but keeps the generator running
OnTimeout_StayAlive(g) ==
    LET g1 == [g EXCEPT !.timeouts = g.timeouts + 1]
    IN  IF g1.timeouts > g1.max_timeouts
        THEN [g |-> g1, y |-> "Disconnected"]
        ELSE [g |-> g1, y |-> "Suppress"]

\* except USBTimeoutError
OnTimeout(g) ==
    LET g1 == [g EXCEPT !.timeouts = g.timeouts + 1]
    IN  IF g1.timeouts > g1.max_timeouts
        THEN [g |-> [g1 EXCEPT !.alive = FALSE], y |-> "Disconnected"]
        ELSE [g |-> g1, y |-> "Suppress"]

\* a USBError handler that counts the error as one more timeout
OnUSBError_AsTimeout(g) ==
    LET g1 == [g EXCEPT !.timeouts = g.timeouts + 1]
    IN  IF g1.timeouts > g1.max_timeouts
        THEN [g |-> [g1 EXCEPT !.alive = FALSE], y |-> "Disconnected"]
        ELSE [g |-> g1, y |-> "Suppress"]

\* except USBError: raise e
OnUSBError(g) == [g |-> [g EXCEPT !.alive = FALSE], y |-> "Fatal"]

\* Clock values the next next() can read: the first one follows the sample
\* t0 at once, a later one after any time shorter than the clock's period.
NowSet(g) ==
    IF g.started
    THEN ClockSamples
    ELSE {t1 \in ClockSamples : TrueElapsed(g.t0, t1) <= 1}

----------------------------------------------------------------------------
(* Actions: one next() on the generator, by what the bus does *)

PollRateLimited ==
    \E t1 \in NowSet(gen) :
        LET g == Accumulate(gen, t1) IN
        /\ gen.alive
        /\ TooSoon(g)
        /\ gen' = RateLimited(g)
        /\ out' = "Suppress"
        /\ rd' = 0
        /\ lastIn' = "ratelimit"
        /\ UNCHANGED <<dev, consec, lastRep>>
        /\ UNCHANGED <<scanVars, initVars, normVars, clockVars, taskVars>>

PollReadOk ==
    \E t1 \in NowSet(gen), packet \in Reports(dev.dev_type) :
        LET g == Accumulate(gen, t1)
            r == OnReport(StartRead(g), dev.dev_type, packet)
        IN
        /\ gen.alive
        /\ ~TooSoon(g)
        /\ gen' = r.g
        /\ out' = r.y
        /\ rd' = 1
        /\ lastIn' = "ok"
        /\ consec' = 0
        /\ lastRep' = IF r.rep = NoReport THEN lastRep ELSE r.rep
        /\ UNCHANGED dev
        /\ UNCHANGED <<scanVars, initVars, normVars, clockVars, taskVars>>

PollReadTimeout ==
    \E t1 \in NowSet(gen) :
        LET g == Accumulate(gen, t1)
            r == OnTimeout(StartRead(g))
        IN
        /\ gen.alive
        /\ ~TooSoon(g)
        /\ gen' = r.g
        /\ out' = r.y
        /\ rd' = 1
        /\ lastIn' = "timeout"
        /\ consec' = consec + 1
        /\ UNCHANGED <<dev, lastRep>>
        /\ UNCHANGED <<scanVars, initVars, normVars, clockVars, taskVars>>

PollReadError ==
    \E t1 \in NowSet(gen) :
        LET g == Accumulate(gen, t1)
            r == OnUSBError(StartRead(g))
        IN
        /\ gen.alive
        /\ ~TooSoon(g)
        /\ gen' = r.g
        /\ out' = r.y
        /\ rd' = 1
        /\ lastIn' = "error"
        /\ consec' = 0
        /\ UNCHANGED <<dev, lastRep>>
        /\ UNCHANGED <<scanVars, initVars, normVars, clockVars, taskVars>>

----------------------------------------------------------------------------
(* find_usb_device *)

\* how many devices core.find(find_all=True) may enumerate
MaxAttached == 2

\* port_numbers tuples
Ports == { <<1>>, <<2>>, <<1, 1>> }

\* A device as the scan sees it: the vid, pid and device (class, subclass) of
\* its 18 byte device descriptor, and the (class, subclass) of interface 0
\* that read_configuration finds; ins and outs count the IN and OUT endpoints
\* of interface 0.
Descriptor(vid, pid, d, i0) ==
    [vid |-> vid, pid |-> pid, d |-> d, i0 |-> i0, ins |-> 1, outs |-> 1]

\* a configuration whose interface 0 lists no IN endpoint
NoEndpointIn(desc) == [desc EXCEPT !.ins = 0]

DescriptorPool ==
    { Descriptor(1406, 8201, <<0, 0>>, <<3, 0>>),        \* 057e:2009
      Descriptor(2079, 58369, <<0, 0>>, <<3, 0>>),       \* 081f:e401
      Descriptor(11720, 36888, <<0, 0>>, <<3, 0>>),      \* 2dc8:9018
      Descriptor(8406, 42769, <<0, 0>>, <<3, 0>>),       \* 20d6:a711
      Descriptor(1118, 654, <<255, 255>>, <<255, 93>>),  \* 045e:028e, XInput class
      Descriptor(1133, 49948, <<0, 0>>, <<3, 1>>),       \* a boot keyboard
      Descriptor(1133, 49271, <<0, 0>>, <<3, 2>>),       \* a boot mouse
      Descriptor(1406, 8201, <<255, 255>>, <<255, 93>>), \* 057e:2009, XInput class
      Descriptor(8406, 42769, <<0, 0>>, <<3, 1>>),       \* 20d6:a711, boot keyboard class
      NoEndpointIn(Descriptor(2079, 58369, <<0, 0>>, <<3, 0>>)),
      NoEndpointIn(Descriptor(1406, 8201, <<0, 0>>, <<3, 0>>)),
      Descriptor(0, 0, <<0, 0>>, <<0, 0>>) }             \* all-zeros descriptor

Device(desc, port) == [desc |-> desc, port_numbers |-> port]

\* sequences of at most n devices on pairwise different ports
RECURSIVE Enumerations(_)
Enumerations(n) ==
    IF n = 0 THEN { <<>> }
    ELSE Enumerations(n - 1) \cup
         { Append(e, Device(d, p)) :
             e \in { x \in Enumerations(n - 1) : Len(x) = n - 1 },
             d \in DescriptorPool,
             p \in Ports }

DistinctPorts(e) ==
    \A i, j \in 1..Len(e) : i # j => e[i].port_numbers # e[j].port_numbers

\* desc.to_bytes(): the device descriptor, without the configuration
DescBytes(desc) == <<desc.vid, desc.pid, desc.d[1], desc.d[2]>>

\* all((byte_ == 0 for byte_ in desc_bytes))
AllZeros(bytes) == \A i \in 1..Len(bytes) : bytes[i] = 0

\* k = str(desc_bytes) + str(device.port_numbers)
CacheKey(device) == <<DescBytes(device.desc), device.port_numbers>>

\* the chain with the class tuples tested before the vid:pid pairs
MatchType_ClassFirst(desc) ==
    LET d_i0 == desc.d \o desc.i0 IN
    CASE d_i0 = <<255, 255, 255, 93>>         -> TYPE_XINPUT
      [] d_i0 = <<0, 0, 3, 1>>                -> TYPE_BOOT_KEYBOARD
      [] desc.vid = 1406 /\ desc.pid = 8201   -> TYPE_SWITCH_PRO
      [] desc.vid = 2079 /\ desc.pid = 58369  -> TYPE_ADAFRUIT_SNES
      [] desc.vid = 11720 /\ desc.pid = 36888 -> TYPE_8BITDO_ZERO2
      [] desc.vid = 8406 /\ desc.pid = 42769  -> TYPE_POWERA_WIRED
      [] OTHER                                -> 0

\* the if/elif chain on (vid, pid) and d_i0; 0 when nothing matches
MatchType(desc) ==
    LET d_i0 == desc.d \o desc.i0 IN
    CASE desc.vid = 1406 /\ desc.pid = 8201   -> TYPE_SWITCH_PRO
      [] desc.vid = 2079 /\ desc.pid = 58369  -> TYPE_ADAFRUIT_SNES
      [] desc.vid = 11720 /\ desc.pid = 36888 -> TYPE_8BITDO_ZERO2
      [] desc.vid = 8406 /\ desc.pid = 42769  -> TYPE_POWERA_WIRED
      [] d_i0 = <<255, 255, 255, 93>>         -> TYPE_XINPUT
      [] d_i0 = <<0, 0, 3, 1>>                -> TYPE_BOOT_KEYBOARD
      [] OTHER                                -> 0

\* no handshake in progress
NoHandshake == [pc |-> "none"]

\* What a call hands back: kind is "Matched" (an InputDevice), "None" or the
\* exception raised; key is the cache key of the matched device and at the
\* position of the device the call stopped at.
NoResult ==
    [kind |-> "None", dev_type |-> 0, player |-> 0, port_numbers |-> <<>>,
     key |-> <<>>, at |-> 0]

Raised(e) ==
    [kind |-> e, dev_type |-> 0, player |-> 0, port_numbers |-> <<>>,
     key |-> <<>>, at |-> 0]

\* a slot rule that gives player 1 to port (1,) only
Player_PortOne(port_numbers) == IF port_numbers = <<1>> THEN 1 ELSE 2

\* self.player = 2 if (device.port_numbers == (2,)) else 1
Player(port_numbers) == IF port_numbers = <<2>> THEN 2 ELSE 1

\* What the USB traffic of InputDevice.__init__ can end in: cfg is the
\* outcome of set_configuration, init that of the type's handshake.
InitOutcomes ==
    [cfg : {"ok", "USBError"}, init : {"ok", "USBError", "ValueError"}]

\* init_switch_pro_gamepad: a write timeout or eight read timeouts in a row
\* raise ValueError, any other USB failure propagates
InitSwitchPro(init) == init

\* init_xinput: read timeouts are ignored, other USB failures propagate
InitXInput(init) == IF init = "USBError" THEN "USBError" ELSE "ok"

\* InputDevice(dev, dev_type, tag, desc): endpoint_in and endpoint_out are
\* None when interface 0 lists none, and only the two handshakes look at
\* them (None.bEndpointAddress is an AttributeError)
InputDevice(device, dev_type, io) ==
    LET e == IF io.cfg # "ok" THEN io.cfg
             ELSE IF /\ dev_type \in {TYPE_SWITCH_PRO, TYPE_XINPUT}
                     /\ (device.desc.outs < 1 \/ device.desc.ins < 1)
                  THEN "AttributeError"
             ELSE IF dev_type = TYPE_SWITCH_PRO THEN InitSwitchPro(io.init)
             ELSE IF dev_type = TYPE_XINPUT THEN InitXInput(io.init)
             ELSE "ok"
    IN  IF e = "ok"
        THEN [kind |-> "Matched", dev_type |-> dev_type,
              player |-> Player(device.port_numbers),
              port_numbers |-> device.port_numbers,
              key |-> CacheKey(device), at |-> 0]
        ELSE Raised(e)

\* if k in device_cache: return None
OnCached(cache) == [cache |-> cache, result |-> NoResult, done |-> TRUE]

\* a pass that matches a device without recording its key
ScanDevice_NoRecord(device, cache, io) ==
    IF AllZeros(DescBytes(device.desc))
    THEN [cache |-> cache, result |-> Raised("ValueError"), done |-> TRUE]
    ELSE IF CacheKey(device) \in cache
    THEN OnCached(cache)
    ELSE LET t == MatchType(device.desc)
         IN  IF t # 0
             THEN [cache |-> cache, result |-> InputDevice(device, t, io), done |-> TRUE]
             ELSE [cache |-> cache, result |-> NoResult, done |-> FALSE]

\* a pass that takes an all-zeros descriptor for an unsupported device
ScanDevice_SkipZeros(device, cache, io) ==
    IF AllZeros(DescBytes(device.desc))
    THEN [cache |-> cache, result |-> NoResult, done |-> FALSE]
    ELSE IF CacheKey(device) \in cache
    THEN OnCached(cache)
    ELSE LET c2 == cache \cup {CacheKey(device)}
             t  == MatchType(device.desc)
         IN  IF t # 0
             THEN [cache |-> c2, result |-> InputDevice(device, t, io), done |-> TRUE]
             ELSE [cache |-> c2, result |-> NoResult, done |-> FALSE]

\* a pass that records the key of a supported device only when its
\* InputDevice was made
ScanDevice_RecordOnSuccess(device, cache, io) ==
    IF AllZeros(DescBytes(device.desc))
    THEN [cache |-> cache, result |-> Raised("ValueError"), done |-> TRUE]
    ELSE IF CacheKey(device) \in cache
    THEN OnCached(cache)
    ELSE LET c2 == cache \cup {CacheKey(device)}
             t  == MatchType(device.desc)
             r  == InputDevice(device, t, io)
         IN  IF t # 0
             THEN [cache |-> IF r.kind = "Matched" THEN c2 ELSE cache,
                   result |-> r, done |-> TRUE]
             ELSE [cache |-> c2, result |-> NoResult, done |-> FALSE]

\* One pass of the for loop, for the device at position i.
ScanDevice(device, cache, io) ==
    IF AllZeros(DescBytes(device.desc))
    THEN [cache |-> cache, result |-> Raised("ValueError"), done |-> TRUE]
    ELSE IF CacheKey(device) \in cache
    THEN OnCached(cache)
    ELSE LET c2 == cache \cup {CacheKey(device)}
             t  == MatchType(device.desc)
         IN  IF t # 0
             THEN [cache |-> c2, result |-> InputDevice(device, t, io), done |-> TRUE]
             ELSE [cache |-> c2, result |-> NoResult, done |-> FALSE]

\* for device in core.find(find_all=True): ... ; return None
RECURSIVE ScanFrom(_, _, _, _)
ScanFrom(devices, cache, i, io) ==
    IF i > Len(devices)
    THEN [cache |-> cache, result |-> NoResult, done |-> TRUE]
    ELSE LET r == ScanDevice(devices[i], cache, io)
         IN  IF r.done
             THEN [r EXCEPT !.result.at = i]
             ELSE ScanFrom(devices, r.cache, i + 1, io)

----------------------------------------------------------------------------
(* Actions of the scan *)

\* one call find_usb_device(device_cache)
FindUsbDevice ==
    \E io \in InitOutcomes :
        LET r == ScanFrom(attached, device_cache, 1, io) IN
        /\ device_cache' = r.cache
        /\ result' = r.result
        /\ sessions' = IF r.result.kind = "Matched"
                       THEN Append(sessions, r.result.key)
                       ELSE sessions
        /\ skipped' = IF /\ r.result.kind = "ValueError"
                         /\ r.result.at > 0
                         /\ AllZeros(DescBytes(attached[r.result.at].desc))
                      THEN skipped \cup
                           { CacheKey(attached[i]) : i \in (r.result.at + 1)..Len(attached) }
                      ELSE skipped
        /\ UNCHANGED <<attached, unplugged>>
        /\ UNCHANGED <<pollVars, initVars, normVars, clockVars, taskVars>>

\* a device is unplugged: the next enumeration no longer lists it
Unplug ==
    \E i \in 1..Len(attached) :
        /\ attached' = SubSeq(attached, 1, i - 1) \o SubSeq(attached, i + 1, Len(attached))
        /\ unplugged' = unplugged \cup {attached[i]}
        /\ UNCHANGED <<device_cache, result, sessions, skipped>>
        /\ UNCHANGED <<pollVars, initVars, normVars, clockVars, taskVars>>

\* an unplugged device is plugged into its port again: the enumeration
\* lists it again, at any position
Replug ==
    \E d \in unplugged, i \in 0..Len(attached) :
        /\ \A j \in 1..Len(attached) : attached[j].port_numbers # d.port_numbers
        /\ attached' = SubSeq(attached, 1, i) \o <<d>> \o SubSeq(attached, i + 1, Len(attached))
        /\ unplugged' = unplugged \ {d}
        /\ UNCHANGED <<device_cache, result, sessions, skipped>>
        /\ UNCHANGED <<pollVars, initVars, normVars, clockVars, taskVars>>

InitScan ==
    /\ attached \in { e \in Enumerations(MaxAttached) : DistinctPorts(e) }
    /\ device_cache = {}
    /\ result = NoResult
    /\ sessions = <<>>
    /\ unplugged = {}
    /\ skipped = {}
    /\ hs = NoHandshake
    /\ raw = <<>>
    /\ norm = 0
    /\ clk = NoClock
    /\ tasks = NoTasks
    /\ dev = CHOOSE c \in Configs : c.dev_type = TYPE_XINPUT
    /\ gen = NewGenerator(dev, 0)
    /\ out = "None"
    /\ rd = 0
    /\ lastIn = "start"
    /\ consec = 0
    /\ lastRep = NoReport

NextScan ==
    \/ FindUsbDevice
    \/ Unplug

SpecScan == InitScan /\ [][NextScan]_vars

\* The scan with devices that come back: fewer kinds of device, and a
\* device that was unplugged may be plugged in again.
ReplugPool ==
    { d \in DescriptorPool :
        \/ MatchType(d) \in {TYPE_SWITCH_PRO, TYPE_BOOT_KEYBOARD} /\ d.d = <<0, 0>>
        \/ d.i0 = <<3, 2>>
        \/ AllZeros(DescBytes(d)) }

InitReplug ==
    /\ InitScan
    /\ \A i \in 1..Len(attached) : attached[i].desc \in ReplugPool

NextReplug ==
    \/ FindUsbDevice
    \/ Unplug
    \/ Replug

SpecReplug == InitReplug /\ [][NextReplug]_vars

----------------------------------------------------------------------------
(* InputDevice.__init__: the USB traffic of the two handshakes *)

\* for _ in range(8): read attempts after each Switch Pro frame
AckReads == 8

\* for _ in range(8): reads that drain the XInput pipe
DrainReads == 8

\* leds, by player
Leds(player) ==
    IF player = 2
    THEN <<1, 10, 0, 0, 0, 0, 0, 0, 0, 0, 48, 3>>
    ELSE <<1, 10, 0, 0, 0, 0, 0, 0, 0, 0, 48, 1>>

\* handshake_messages
HandshakeMessages(player) ==
    << <<128, 1>>,
       <<128, 2>>,
       <<128, 3>>,
       <<128, 2>>,
       <<128, 4>>,
       <<1, 6, 0, 0, 0, 0, 0, 0, 0, 0, 3, 48>>,
       Leds(player),
       <<1, 11, 0, 0, 0, 0, 0, 0, 0, 0, 56, 1, 0, 0, 17, 17>> >>

\* msg of init_xinput: 01 03 02 lights 1 LED, 01 03 03 lights 2 LEDs
XInputLeds(player) == IF player = 2 THEN <<1, 3, 3>> ELSE <<1, 3, 2>>

\* outcome of one USB transfer
TransferResults == {"ok", "timeout", "error"}

\* The state of one InputDevice.__init__ after set_configuration: pc is where
\* it stands ("start", "write", "read") or how it ended ("ok" or the name of
\* the exception), ins and outs count the endpoints of interface 0, k is the
\* index of the frame in hand, tries the reads attempted for it; writes,
\* reads, acks, last and pat record the transfers made so far.
StartInit(dev_type, player, ins, outs) ==
    [pc |-> "start", dev_type |-> dev_type, player |-> player,
     ins |-> ins, outs |-> outs, k |-> 0, tries |-> 0,
     writes |-> <<>>, reads |-> 0, acks |-> 0, last |-> "none", pat |-> <<>>]

\* out_addr = self.int0_endpoint_out.bEndpointAddress
\* in_addr = self.int0_endpoint_in.bEndpointAddress
LookupEndpoints(h) ==
    IF h.outs < 1 \/ h.ins < 1
    THEN [h EXCEPT !.pc = "AttributeError"]
    ELSE [h EXCEPT !.pc = "write", !.k = 1]

\* a write whose timeout is passed on as it is
SwitchProWrite_TimeoutPropagates(h, res) ==
    CASE res = "ok" ->
           [h EXCEPT !.writes = Append(@, HandshakeMessages(h.player)[h.k]),
                     !.pc = "read", !.tries = 0, !.last = "wr_ok"]
      [] res = "timeout" -> [h EXCEPT !.pc = "USBTimeoutError", !.last = "wr_tmo"]
      [] OTHER -> [h EXCEPT !.pc = "USBError", !.last = "err"]

\* self.device.write(out_addr, msg, timeout=out_interval) of the frame k
SwitchProWrite(h, res) ==
    CASE res = "ok" ->
           [h EXCEPT !.writes = Append(@, HandshakeMessages(h.player)[h.k]),
                     !.pc = "read", !.tries = 0, !.last = "wr_ok"]
      [] res = "timeout" -> [h EXCEPT !.pc = "ValueError", !.last = "wr_tmo"]
      [] OTHER -> [h EXCEPT !.pc = "USBError", !.last = "err"]

\* a read loop without the break: it reads on after a reply
SwitchProRead_NoBreak(h, res) ==
    LET n == h.tries + 1
        okay == h.acks >= h.k \/ res = "ok"
        r == [h EXCEPT !.reads = @ + 1, !.tries = n,
                       !.acks = IF res = "ok" /\ h.acks < h.k THEN @ + 1 ELSE @,
                       !.last = IF res = "ok" THEN "rd_ok" ELSE "rd_tmo"]
    IN  IF res = "error"
        THEN [h EXCEPT !.reads = @ + 1, !.pc = "USBError", !.last = "err"]
        ELSE IF n < AckReads THEN r
        ELSE IF ~okay THEN [r EXCEPT !.pc = "ValueError"]
        ELSE IF h.k = Len(HandshakeMessages(h.player)) THEN [r EXCEPT !.pc = "ok"]
        ELSE [r EXCEPT !.pc = "write", !.k = @ + 1]

\* one pass of `for _ in range(8)` after the frame k: a reply ends the loop
\* and the next frame is in hand, the eighth timeout raises ValueError
SwitchProRead(h, res) ==
    CASE res = "ok" ->
           LET r == [h EXCEPT !.reads = @ + 1, !.acks = @ + 1, !.last = "rd_ok"]
           IN  IF h.k = Len(HandshakeMessages(h.player))
               THEN [r EXCEPT !.pc = "ok"]
               ELSE [r EXCEPT !.pc = "write", !.k = @ + 1]
      [] res = "timeout" ->
           LET r == [h EXCEPT !.reads = @ + 1, !.tries = @ + 1, !.last = "rd_tmo"]
           IN  IF r.tries = AckReads THEN [r EXCEPT !.pc = "ValueError"] ELSE r
      [] OTHER -> [h EXCEPT !.reads = @ + 1, !.pc = "USBError", !.last = "err"]

\* self.device.write(out_addr, msg, timeout=8): not inside a try
XInputWrite(h, res) ==
    CASE res = "ok" ->
           [h EXCEPT !.writes = Append(@, XInputLeds(h.player)),
                     !.pc = "read", !.tries = 0, !.last = "wr_ok"]
      [] res = "timeout" -> [h EXCEPT !.pc = "USBTimeoutError", !.last = "wr_tmo"]
      [] OTHER -> [h EXCEPT !.pc = "USBError", !.last = "err"]

\* a drain loop that gives up at a read timeout
XInputRead_TimeoutAborts(h, res) ==
    CASE res = "ok" ->
           LET r == [h EXCEPT !.reads = @ + 1, !.tries = @ + 1, !.last = "rd_ok",
                              !.pc = IF h.tries + 1 = DrainReads THEN "ok" ELSE @,
                              !.pat = Append(@, res)]
           IN  r
      [] res = "timeout" ->
           [h EXCEPT !.reads = @ + 1, !.tries = @ + 1, !.last = "rd_tmo",
                     !.pc = "USBTimeoutError", !.pat = Append(@, res)]
      [] OTHER -> [h EXCEPT !.reads = @ + 1, !.pc = "USBError", !.last = "err"]

\* one pass of `for _ in range(8)` of init_xinput: a timeout is ignored
XInputRead(h, res) ==
    IF res \in {"ok", "timeout"}
    THEN [h EXCEPT !.reads = @ + 1, !.tries = @ + 1,
                   !.last = IF res = "ok" THEN "rd_ok" ELSE "rd_tmo",
                   !.pc = IF h.tries + 1 = DrainReads THEN "ok" ELSE @,
                   !.pat = Append(@, res)]
    ELSE [h EXCEPT !.reads = @ + 1, !.pc = "USBError", !.last = "err"]

\* the first statements of the handshake
InitBegin ==
    /\ hs.pc = "start"
    /\ hs' = LookupEndpoints(hs)
    /\ UNCHANGED <<pollVars, scanVars, normVars, clockVars, taskVars>>

\* one device.write
InitWrite ==
    \E res \in TransferResults :
        /\ hs.pc = "write"
        /\ hs' = IF hs.dev_type = TYPE_SWITCH_PRO
                 THEN SwitchProWrite(hs, res)
                 ELSE XInputWrite(hs, res)
        /\ UNCHANGED <<pollVars, scanVars, normVars, clockVars, taskVars>>

\* one device.read
InitRead ==
    \E res \in TransferResults :
        /\ hs.pc = "read"
        /\ hs' = IF hs.dev_type = TYPE_SWITCH_PRO
                 THEN SwitchProRead(hs, res)
                 ELSE XInputRead(hs, res)
        /\ UNCHANGED <<pollVars, scanVars, normVars, clockVars, taskVars>>

InitHandshake ==
    /\ hs \in { StartInit(t, p, i, o) :
                  t \in {TYPE_SWITCH_PRO, TYPE_XINPUT}, p \in {1, 2},
                  i \in {0, 1}, o \in {0, 1} }
    /\ attached = <<>>
    /\ device_cache = {}
    /\ result = NoResult
    /\ sessions = <<>>
    /\ unplugged = {}
    /\ skipped = {}
    /\ raw = <<>>
    /\ norm = 0
    /\ clk = NoClock
    /\ tasks = NoTasks
    /\ dev = CHOOSE c \in Configs : c.dev_type = hs.dev_type
    /\ gen = NewGenerator(dev, 0)
    /\ out = "None"
    /\ rd = 0
    /\ lastIn = "start"
    /\ consec = 0
    /\ lastRep = NoReport

NextHandshake ==
    \/ InitBegin
    \/ InitWrite
    \/ InitRead

SpecHandshake == InitHandshake /\ [][NextHandshake]_vars

----------------------------------------------------------------------------
(* input_event_generator: the normalizers *)

\* Gamepad button bitmask constants
UP == 1
DOWN == 2
LEFT == 4
RIGHT == 8
START == 16
SELECT == 32
L == 256
R == 512
B == 4096
A == 8192
Y == 16384
X == 32768

\* a & b on non-negative integers
RECURSIVE BitAnd(_, _)
BitAnd(a, b) ==
    IF a = 0 \/ b = 0 THEN 0
    ELSE (a % 2) * (b % 2) + 2 * BitAnd(a \div 2, b \div 2)

\* a | b on non-negative integers
RECURSIVE BitOr(_, _)
BitOr(a, b) ==
    IF a = 0 THEN b
    ELSE IF b = 0 THEN a
    ELSE Max(a % 2, b % 2) + 2 * BitOr(a \div 2, b \div 2)

\* a << n
ShiftLeft(a, n) == a * Pow2(n)

\* v = 0 followed by one `v |= term` for each term, in order
RECURSIVE OrAll(_, _)
OrAll(v, terms) ==
    IF terms = <<>> THEN v
    ELSE OrAll(BitOr(v, Head(terms)), Tail(terms))

\* `flag if byte & bit else 0`
IfBit(flag, byte, bit) == IF BitAnd(byte, bit) # 0 THEN flag ELSE 0

\* `flags if d2 == code else 0`
IfEq(flags, d2, code) == IF d2 = code THEN flags ELSE 0

\* the eight `v |= ... if d2 == ... else 0` lines of the BCD dpad
Dpad(d2) ==
    << IfEq(UP, d2, 0),
       IfEq(BitOr(UP, RIGHT), d2, 1),
       IfEq(RIGHT, d2, 2),
       IfEq(BitOr(DOWN, RIGHT), d2, 3),
       IfEq(DOWN, d2, 4),
       IfEq(BitOr(DOWN, LEFT), d2, 5),
       IfEq(LEFT, d2, 6),
       IfEq(BitOr(UP, LEFT), d2, 7) >>

\* a dpad decoder that looks at the low three bits of the byte only
normalize_zero2_LowBits(d) ==
    LET d0 == d[1]
        d1 == d[2]
        d2 == d[3]
    IN  OrAll(0, << IfBit(A, d0, 1), IfBit(B, d0, 2), IfBit(X, d0, 8),
                    IfBit(Y, d0, 16), IfBit(L, d0, 64), IfBit(R, d0, 128),
                    IfBit(SELECT, d1, 4), IfBit(START, d1, 8) >>
                 \o Dpad(BitAnd(d2, 7)))

normalize_zero2(d) ==
    LET d0 == d[1]
        d1 == d[2]
        d2 == d[3]
    IN  OrAll(0, << IfBit(A, d0, 1), IfBit(B, d0, 2), IfBit(X, d0, 8),
                    IfBit(Y, d0, 16), IfBit(L, d0, 64), IfBit(R, d0, 128),
                    IfBit(SELECT, d1, 4), IfBit(START, d1, 8) >>
                 \o Dpad(d2))

normalize_powera_wired(d) ==
    LET d0 == d[1]
        d1 == d[2]
        d2 == d[3]
    IN  OrAll(0, << IfBit(Y, d0, 1), IfBit(B, d0, 2), IfBit(A, d0, 4),
                    IfBit(X, d0, 8), IfBit(L, d0, 16), IfBit(R, d0, 32),
                    IfBit(SELECT, d1, 1), IfBit(START, d1, 2) >>
                 \o Dpad(d2))

normalize_switchpro(d) ==
    LET d2 == d[1]
        d3 == d[2]
        d4 == d[3]
    IN  OrAll(0, << IfBit(Y, d2, 1), IfBit(X, d2, 2), IfBit(B, d2, 4),
                    IfBit(A, d2, 8), IfBit(R, d2, 64),
                    IfBit(SELECT, d3, 1), IfBit(START, d3, 2),
                    IfBit(DOWN, d4, 1), IfBit(UP, d4, 2), IfBit(RIGHT, d4, 4),
                    IfBit(LEFT, d4, 8), IfBit(L, d4, 64) >>)

normalize_adasnes(d) ==
    LET d0 == d[1]
        d1 == d[2]
        d5 == d[6]
        d6 == d[7]
    IN  OrAll(0, << IfEq(LEFT, d0, 0), IfEq(RIGHT, d0, 255),
                    IfEq(UP, d1, 0), IfEq(DOWN, d1, 255),
                    IfBit(X, d5, 16), IfBit(A, d5, 32), IfBit(B, d5, 64),
                    IfBit(Y, d5, 128), IfBit(L, d6, 1), IfBit(R, d6, 2),
                    IfBit(SELECT, d6, 16), IfBit(START, d6, 32) >>)

\* `flag` when one of the key codes is among codes, else 0
IfKey(flag, keys, codes) ==
    IF \E i \in 1..Len(codes) : codes[i] \in keys THEN flag ELSE 0

\* the if / elif pair of one dpad axis: the first key set wins
IfElifKey(flag1, keys1, flag2, keys2, codes) ==
    IF IfKey(flag1, keys1, codes) # 0 THEN flag1 ELSE IfKey(flag2, keys2, codes)

\* a decoder that scans all six key-code slots of the report
normalize_boot_keyboard_SixSlots(d) ==
    LET codes == <<d[3], d[4], d[5], d[6], d[7], d[8]>>
    IN  OrAll(0, << IfElifKey(UP, {26, 82}, DOWN, {22, 81}, codes),
                    IfElifKey(LEFT, {4, 80}, RIGHT, {7, 79}, codes),
                    IfKey(A, {29, 44}, codes), IfKey(B, {27}, codes),
                    IfKey(X, {6}, codes), IfKey(Y, {25}, codes),
                    IfKey(L, {20}, codes), IfKey(R, {8}, codes),
                    IfKey(START, {40}, codes), IfKey(SELECT, {41}, codes) >>)

\* codes = (d[2], d[3], d[4]) and the key tests that follow
normalize_boot_keyboard(d) ==
    LET codes == <<d[3], d[4], d[5]>>
    IN  OrAll(0, << IfElifKey(UP, {26, 82}, DOWN, {22, 81}, codes),
                    IfElifKey(LEFT, {4, 80}, RIGHT, {7, 79}, codes),
                    IfKey(A, {29, 44}, codes), IfKey(B, {27}, codes),
                    IfKey(X, {6}, codes), IfKey(Y, {25}, codes),
                    IfKey(L, {20}, codes), IfKey(R, {8}, codes),
                    IfKey(START, {40}, codes), IfKey(SELECT, {41}, codes) >>)

\* a decoder that takes the first byte for the high one
normalize_xinput_Swapped(d) == BitOr(ShiftLeft(d[1], 8), d[2])

\* (d[1] << 8) | d[0]
normalize_xinput(d) == BitOr(ShiftLeft(d[2], 8), d[1])

\* the normalizer input_event_generator picks for dev_type
Normalize(dev_type, d) ==
    CASE dev_type = TYPE_SWITCH_PRO    -> normalize_switchpro(d)
      [] dev_type = TYPE_ADAFRUIT_SNES -> normalize_adasnes(d)
      [] dev_type = TYPE_BOOT_KEYBOARD -> normalize_boot_keyboard(d)
      [] dev_type = TYPE_8BITDO_ZERO2 -> normalize_zero2(d)
      [] dev_type = TYPE_POWERA_WIRED -> normalize_powera_wired(d)
      [] dev_type = TYPE_XINPUT       -> normalize_xinput(d)

Byte == 0..255

\* button bytes of the sampled reports: no bit, each single bit, every bit
ButtonBytes == {0, 1, 2, 4, 8, 16, 32, 64, 128, 255}

\* second bytes of the sampled reports
SecondBytes == {0, 1, 2, 4, 8, 255}

\* analog dpad axis bytes of the Adafruit SNES pad: both ends, the centre
AxisBytes == {0, 127, 255}

\* key codes of the sampled keyboard reports: no key, W, up, S, down, A,
\* left, D, right, Z, Enter
KeyCodes == {0, 26, 82, 22, 81, 4, 80, 7, 79, 29, 40}

\* key-code slots 4 to 6 of the sampled keyboard reports
LaterSlots == { <<0, 0, 0>>, <<22, 7, 26>>, <<4, 82, 41>> }

\* The filtered reports handed to the normalizers: every byte pair for
\* XInput, sampled button bytes with every direction byte for the BCD types,
\* sampled bytes for the other types.
FilteredReports(dev_type) ==
    CASE dev_type = TYPE_SWITCH_PRO ->
           { [dev_type |-> dev_type, d |-> <<d2, d3, d4>>] :
               d2 \in ButtonBytes, d3 \in SecondBytes, d4 \in ButtonBytes }
      [] dev_type = TYPE_ADAFRUIT_SNES ->
           { [dev_type |-> dev_type, d |-> <<d0, d1, 127, 127, 127, d5, d6>>] :
               d0 \in AxisBytes, d1 \in AxisBytes,
               d5 \in ButtonBytes, d6 \in ButtonBytes }
      [] dev_type = TYPE_BOOT_KEYBOARD ->
           { [dev_type |-> dev_type, d |-> <<m, 0, k1, k2, k3>> \o t] :
               m \in {0, 255}, k1 \in KeyCodes, k2 \in KeyCodes, k3 \in KeyCodes,
               t \in LaterSlots }
      [] dev_type = TYPE_XINPUT ->
           { [dev_type |-> dev_type, d |-> <<lo, hi>>] : lo \in Byte, hi \in Byte }
      [] OTHER ->
           { [dev_type |-> dev_type, d |-> <<d0, d1, d2>>] :
               d0 \in ButtonBytes, d1 \in SecondBytes, d2 \in Byte }

DeviceTypes ==
    { TYPE_SWITCH_PRO, TYPE_ADAFRUIT_SNES, TYPE_8BITDO_ZERO2, TYPE_XINPUT,
      TYPE_BOOT_KEYBOARD, TYPE_POWERA_WIRED }

\* one value yielded by the normalizer for a report that passed the filter
NormalizeReport ==
    /\ out = "None"
    /\ norm' = Normalize(raw.dev_type, raw.d)
    /\ out' = "Emit"
    /\ UNCHANGED <<dev, gen, rd, lastIn, consec, lastRep, raw>>
    /\ UNCHANGED <<scanVars, initVars, clockVars, taskVars>>

InitNormalize ==
    /\ \E t \in DeviceTypes : raw \in FilteredReports(t)
    /\ norm = 0
    /\ clk = NoClock
    /\ tasks = NoTasks
    /\ out = "None"
    /\ dev = CHOOSE c \in Configs : c.dev_type = TYPE_XINPUT
    /\ gen = NewGenerator(dev, 0)
    /\ rd = 0
    /\ lastIn = "start"
    /\ consec = 0
    /\ lastRep = NoReport
    /\ attached = <<>>
    /\ device_cache = {}
    /\ result = NoResult
    /\ sessions = <<>>
    /\ unplugged = {}
    /\ skipped = {}
    /\ hs = NoHandshake

NextNormalize == NormalizeReport

SpecNormalize == InitNormalize /\ [][NextNormalize]_vars

----------------------------------------------------------------------------
(* elapsed_ms_generator on its own *)

\* Values ticks_ms() is sampled at: around zero, mid range and just below
\* the point where the counter wraps.
TickSamples ==
    { 0, 1, 2, 7, 1000, TicksPeriod \div 2, TicksPeriod - 1000,
      TicksPeriod - 7, TicksPeriod - 2, TicksPeriod - 1 }

\* t0 = ms()
StartClock(t0) == [t0 |-> t0, delta |-> 0, elapsed |-> 0, n |-> 0]

\* one next() on the generator, the clock reading t1: delta is what it
\* yields, elapsed the milliseconds that passed since the sample before
\* (less than one period of the clock)
NextElapsed ==
    \E t1 \in TickSamples :
        /\ clk' = [t0 |-> t1,
                   delta |-> ElapsedDelta(clk.t0, t1),
                   elapsed |-> TrueElapsed(clk.t0, t1),
                   n |-> Min(clk.n + 1, 2)]
        /\ UNCHANGED <<pollVars, scanVars, initVars, normVars, taskVars>>

InitElapsed ==
    /\ \E t0 \in TickSamples : clk = StartClock(t0)
    /\ tasks = NoTasks
    /\ raw = <<>>
    /\ norm = 0
    /\ hs = NoHandshake
    /\ attached = <<>>
    /\ device_cache = {}
    /\ result = NoResult
    /\ sessions = <<>>
    /\ unplugged = {}
    /\ skipped = {}
    /\ dev = CHOOSE c \in Configs : c.dev_type = TYPE_XINPUT
    /\ gen = NewGenerator(dev, 0)
    /\ out = "None"
    /\ rd = 0
    /\ lastIn = "start"
    /\ consec = 0
    /\ lastRep = NoReport

SpecElapsed == InitElapsed /\ [][NextElapsed]_vars

----------------------------------------------------------------------------
(* Two sessions, each polled by its own task *)

\* next() calls a task makes on its generator
MaxPolls == 2

\* what the bus can answer to a read of a device of type dev_type
BusOutcomes(dev_type) ==
    { [kind |-> k, packet |-> <<>>] : k \in {"timeout", "error"} }
    \cup { [kind |-> "ok", packet |-> r] : r \in Reports(dev_type) }

\* an InputDevice and the int0_read_generator made from it; n counts the
\* next() calls made on the generator
Session(d, t0) == [dev |-> d, gen |-> NewGenerator(d, t0), out |-> "None", n |-> 0]

\* one next() on the generator of session s, the clock reading t1 and the
\* bus answering bus if a read is issued
PollStep(s, t1, bus) ==
    LET g == Accumulate(s.gen, t1) IN
    IF TooSoon(g)
    THEN [s EXCEPT !.gen = RateLimited(g), !.out = "Suppress", !.n = @ + 1]
    ELSE LET r == CASE bus.kind = "timeout" -> OnTimeout(StartRead(g))
                    [] bus.kind = "error"   -> OnUSBError(StartRead(g))
                    [] OTHER -> OnReport(StartRead(g), s.dev.dev_type, bus.packet)
         IN  [s EXCEPT !.gen = r.g, !.out = r.y, !.n = @ + 1]

\* generators that read into one pair of buffers owned by neither
TaskStep_SharedBuffers(ts, p, t1, bus) ==
    LET s == PollStep(ts.sess[p], t1, bus)
        q == 3 - p
    IN  [sess |-> [ts.sess EXCEPT ![p] = s,
                                  ![q].gen.data_odd = s.gen.data_odd,
                                  ![q].gen.data_even = s.gen.data_even],
         ran |-> p]

\* the task of player p runs up to its next await: one next() on its own
\* generator, whose locals no other generator refers to
TaskStep(ts, p, t1, bus) ==
    [sess |-> [ts.sess EXCEPT ![p] = PollStep(ts.sess[p], t1, bus)], ran |-> p]

TaskPoll ==
    \E p \in {1, 2} :
        \E t1 \in NowSet(tasks.sess[p].gen),
           bus \in BusOutcomes(tasks.sess[p].dev.dev_type) :
            /\ tasks.sess[p].gen.alive
            /\ tasks.sess[p].n < MaxPolls
            /\ tasks' = TaskStep(tasks, p, t1, bus)
            /\ UNCHANGED <<pollVars, scanVars, initVars, normVars, clockVars>>

InitTasks ==
    /\ \E d1 \in Configs, d2 \in Configs :
          /\ d1.dev_type = TYPE_8BITDO_ZERO2
          /\ d2.dev_type = TYPE_SWITCH_PRO
          /\ tasks = [sess |-> <<Session(d1, 0), Session(d2, 0)>>, ran |-> 0]
    /\ clk = NoClock
    /\ raw = <<>>
    /\ norm = 0
    /\ hs = NoHandshake
    /\ attached = <<>>
    /\ device_cache = {}
    /\ result = NoResult
    /\ sessions = <<>>
    /\ unplugged = {}
    /\ skipped = {}
    /\ dev = CHOOSE c \in Configs : c.dev_type = TYPE_XINPUT
    /\ gen = NewGenerator(dev, 0)
    /\ out = "None"
    /\ rd = 0
    /\ lastIn = "start"
    /\ consec = 0
    /\ lastRep = NoReport

SpecTasks == InitTasks /\ [][TaskPoll]_vars

----------------------------------------------------------------------------
(* input_event_generator polled by the for loop of gamepad_loop: the session
   is in dev, gen, out; norm is the value the normalizer yielded last; tasks
   holds the locals of the loop (prev, and the diff of the last event). *)

MaxEvents == 4

\* a ^ b on non-negative integers
RECURSIVE BitXor(_, _)
BitXor(a, b) ==
    IF a = 0 THEN b
    ELSE IF b = 0 THEN a
    ELSE ((a + b) % 2) + 2 * BitXor(a \div 2, b \div 2)

\* Reports of a pad in use: idle, a mapped button held, and the same button
\* together with an input the normalizer does not map (Home on the Switch
\* Pro, left shift on the keyboard, a trigger axis on XInput).
EventReports(dev_type) ==
    CASE dev_type = TYPE_SWITCH_PRO ->
           { <<48, 0, 0, 0, 0, 0, 0, 0>>, <<48, 1, 0, 8, 0, 0, 0, 0>>,
             <<48, 2, 0, 8, 16, 0, 0, 0>> }
      [] dev_type = TYPE_8BITDO_ZERO2 ->
           { <<0, 0, 15>>, <<1, 0, 15>>, <<1, 0, 0>> }
      [] dev_type = TYPE_XINPUT ->
           { <<0, 20, 0, 0, 0, 0, 0, 0>>, <<0, 20, 0, 16, 0, 0, 0, 0>>,
             <<0, 20, 0, 16, 255, 0, 0, 0>> }
      [] OTHER ->
           { <<0, 0, 0, 0, 0, 0, 0, 0>>, <<0, 0, 26, 0, 0, 0, 0, 0>>,
             <<2, 0, 26, 0, 0, 0, 0, 0>> }

EventOutcomes(dev_type) ==
    { [kind |-> k, packet |-> <<>>] : k \in {"timeout", "error"} }
    \cup { [kind |-> "ok", packet |-> r] : r \in EventReports(dev_type) }

\* locals of the for loop before its first iteration (prev = 0)
StartLoop == [prev |-> 0, diff |-> 0, events |-> 0, n |-> 0]

\* the loop body for a value that is not None: diff = prev ^ data; prev = data
OnEvent(loop, data) ==
    [loop EXCEPT !.prev = data, !.diff = BitXor(loop.prev, data),
                 !.events = Min(@ + 1, 2)]

\* one iteration of `for data in dev.input_event_generator()`
EventPoll ==
    \E t1 \in NowSet(gen), bus \in EventOutcomes(dev.dev_type) :
        LET s    == PollStep([dev |-> dev, gen |-> gen, out |-> out, n |-> tasks.n],
                             t1, bus)
            data == Normalize(dev.dev_type, ViewBytes(s.gen, s.gen.prev_report))
            loop == [tasks EXCEPT !.n = s.n]
        IN
        /\ gen.alive
        /\ tasks.n < MaxEvents
        /\ gen' = s.gen
        /\ out' = s.out
        /\ norm' = IF s.out = "Emit" THEN data ELSE norm
        /\ tasks' = IF s.out = "Emit" THEN OnEvent(loop, data) ELSE loop
        /\ UNCHANGED <<dev, rd, lastIn, consec, lastRep, raw>>
        /\ UNCHANGED <<scanVars, initVars, clockVars>>

InitEvents ==
    /\ dev \in Configs
    /\ gen = NewGenerator(dev, 0)
    /\ out = "None"
    /\ norm = 0
    /\ tasks = StartLoop
    /\ rd = 0
    /\ lastIn = "start"
    /\ consec = 0
    /\ lastRep = NoReport
    /\ raw = <<>>
    /\ clk = NoClock
    /\ hs = NoHandshake
    /\ attached = <<>>
    /\ device_cache = {}
    /\ result = NoResult
    /\ sessions = <<>>
    /\ unplugged = {}
    /\ skipped = {}

SpecEvents == InitEvents /\ [][EventPoll]_vars

----------------------------------------------------------------------------
(* main and the two gamepad_loop tasks: tasks holds the position of each
   task (top: at `while True`, sleep: in asyncio.sleep(0.002), wait: in
   asyncio.sleep(0.4), poll: in the for loop, ended: left by an exception)
   and whether main still awaits asyncio.gather. *)

\* def find_usb_device(device_cache)
FindUsbDeviceParams == {"device_cache"}

\* the arguments of the call in gamepad_loop: find_usb_device(player=player)
FindUsbDeviceCall == {"player"}

\* Python binds the arguments of a call to the parameters of the function:
\* an unexpected keyword or a missing argument is a TypeError
Bind(params, keywords) == IF keywords = params THEN "ok" ELSE "TypeError"

\* except USBError / except USBTimeoutError / except ValueError
Caught(e) == e \in {"USBError", "USBTimeoutError", "ValueError"}

\* an exception inside the try: a handler prints it and the while loop goes
\* on, any other exception leaves gamepad_loop
OnException(t, e) ==
    IF Caught(e) THEN [t EXCEPT !.pc = "top"] ELSE [pc |-> "ended", exc |-> e]

\* what the generator hands to the for loop, or raises
LoopEvents == {"None", "Emit", "USBError", "USBTimeoutError"}

\* gamepad_loop from one await to the next; call is what find_usb_device
\* returned or raised, event what the generator yielded or raised
LoopResume(t, call, event) ==
    CASE t.pc = "top"   -> [t EXCEPT !.pc = "sleep"]
      [] t.pc = "sleep" -> IF call = "None" THEN [t EXCEPT !.pc = "wait"]
                           ELSE IF call = "Matched" THEN [t EXCEPT !.pc = "poll"]
                           ELSE OnException(t, call)
      [] t.pc = "wait"  -> [t EXCEPT !.pc = "top"]
      [] t.pc = "poll"  -> IF event \in {"None", "Emit"} THEN t
                           ELSE OnException(t, event)
      [] OTHER          -> t

StartTasks ==
    [task |-> << [pc |-> "top", exc |-> "none"], [pc |-> "top", exc |-> "none"] >>,
     main |-> "gather"]

\* the scheduler resumes the task of player p
LoopStep ==
    \E p \in {1, 2}, io \in InitOutcomes, event \in LoopEvents :
        LET b    == Bind(FindUsbDeviceParams, FindUsbDeviceCall)
            r    == ScanFrom(attached, device_cache, 1, io)
            call == IF b # "ok" THEN b ELSE r.result.kind
        IN
        /\ tasks.main = "gather"
        /\ tasks.task[p].pc # "ended"
        /\ tasks' = [tasks EXCEPT !.task[p] = LoopResume(@, call, event)]
        /\ device_cache' = IF tasks.task[p].pc = "sleep" /\ b = "ok"
                           THEN r.cache ELSE device_cache
        /\ UNCHANGED <<attached, result, sessions, unplugged, skipped>>
        /\ UNCHANGED <<pollVars, initVars, normVars, clockVars>>

\* asyncio.gather re-raises the exception of a task in main; main ends,
\* asyncio.run returns and no task is resumed any more
GatherRaise ==
    /\ tasks.main = "gather"
    /\ \E p \in {1, 2} : tasks.task[p].pc = "ended"
    /\ tasks' = [tasks EXCEPT !.main = "raised"]
    /\ UNCHANGED <<pollVars, scanVars, initVars, normVars, clockVars>>

InitLoop ==
    /\ attached \in { e \in Enumerations(MaxAttached) : DistinctPorts(e) }
    /\ tasks = StartTasks
    /\ device_cache = {}
    /\ result = NoResult
    /\ sessions = <<>>
    /\ unplugged = {}
    /\ skipped = {}
    /\ hs = NoHandshake
    /\ raw = <<>>
    /\ norm = 0
    /\ clk = NoClock
    /\ dev = CHOOSE c \in Configs : c.dev_type = TYPE_XINPUT
    /\ gen = NewGenerator(dev, 0)
    /\ out = "None"
    /\ rd = 0
    /\ lastIn = "start"
    /\ consec = 0
    /\ lastRep = NoReport

NextLoop ==
    \/ LoopStep
    \/ GatherRaise

SpecLoop == InitLoop /\ [][NextLoop]_vars

----------------------------------------------------------------------------
(* The polling specification: one device, polled until it ends *)

Init ==
    /\ dev \in Configs
    /\ \E t0 \in ClockSamples : gen = NewGenerator(dev, t0)
    /\ out = "None"
    /\ rd = 0
    /\ lastIn = "start"
    /\ consec = 0
    /\ lastRep = NoReport
    /\ attached = <<>>
    /\ device_cache = {}
    /\ result = NoResult
    /\ sessions = <<>>
    /\ unplugged = {}
    /\ skipped = {}
    /\ hs = NoHandshake
    /\ raw = <<>>
    /\ norm = 0
    /\ clk = NoClock
    /\ tasks = NoTasks

Next ==
    \/ PollRateLimited
    \/ PollReadOk
    \/ PollReadTimeout
    \/ PollReadError

Spec == Init /\ [][Next]_vars

----------------------------------------------------------------------------
(* The polling specification with a consumer that keeps calling and a clock
   that keeps advancing: one gamepad session *)

\* a call of the poll loop at which ticks_ms() differs from the call before
PollTick == Next /\ gen'.t0 # gen.t0

\* a Switch Pro session (threshold 2 ms) made at tick 0
InitLive ==
    /\ Init
    /\ dev.dev_type = TYPE_SWITCH_PRO
    /\ gen.t0 = 0

\* the consumer keeps calling while the session is live, and the clock
\* keeps advancing between calls: a call that reads a new tick value is
\* never put off forever
SpecLive == InitLive /\ [][Next]_vars /\ WF_vars(PollTick)

----------------------------------------------------------------------------
(* Properties of the polling loop *)

\* the timeout ceiling the specification states for a device type
Ceiling == IF dev.dev_type = TYPE_BOOT_KEYBOARD THEN 9999 ELSE 99

\* bytes of the retained previous report
PrevBytes(g) == ViewBytes(g, g.prev_report)

\* C1: with ceiling N (99 for gamepads, 9999 for the boot keyboard) the 1st
\* to Nth consecutive read timeout each yield Suppress and the (N+1)th one
\* signals Disconnected, never earlier and never later.
C1_TimeoutCeiling ==
    lastIn = "timeout" =>
        /\ consec >= 1 /\ consec <= Ceiling + 1
        /\ (consec <= Ceiling => out = "Suppress" /\ gen.alive)
        /\ (consec = Ceiling + 1 => out = "Disconnected" /\ ~gen.alive)

C1_Witness ==
    /\ dev.dev_type # TYPE_BOOT_KEYBOARD
    /\ lastIn = "timeout" /\ consec = 100 /\ out = "Disconnected"

\* C2: the timeout counter is set to zero by every successful read (emitted,
\* duplicate or NoSignal), grows by one on a read timeout, and is changed by
\* nothing else; Disconnected is signalled only on a read timeout that is
\* the (ceiling+1)th since the last successful read.
C2_CounterReset ==
    [][ /\ (lastIn' = "ok" => gen'.timeouts = 0)
        /\ (lastIn' = "timeout" => gen'.timeouts = gen.timeouts + 1)
        /\ (lastIn' \notin {"ok", "timeout"} => gen'.timeouts = gen.timeouts)
        /\ (out' = "Disconnected" => lastIn' = "timeout" /\ consec' = Ceiling + 1
                                       /\ gen'.timeouts = consec')
      ]_vars

C2_Witness ==
    /\ lastIn = "ok" /\ out = "Suppress" /\ gen.timeouts = 0
    /\ dev.dev_type = TYPE_SWITCH_PRO
    /\ gen.data_odd[1] # SwitchProReportId

\* C3: a read whose filtered report equals the retained previous report
\* byte for byte yields Suppress, and so does a read whose filtered report
\* equals the filtered report of the read before it, whatever rate-limit
\* cycles and read timeouts lie between the two reads.
C3_DuplicateSuppressed ==
    [][ lastIn' = "ok" /\ lastRep' # NoReport /\
        (lastRep' = PrevBytes(gen) \/ lastRep' = lastRep)
          => out' = "Suppress" ]_vars

C3_Witness ==
    /\ dev.dev_type = TYPE_8BITDO_ZERO2
    /\ lastIn = "ok" /\ out = "Suppress"
    /\ lastRep = PrevBytes(gen) /\ gen.prev_report.buf = "odd"

\* C4: a cycle that ends in Suppress after a read attempt leaves the
\* retained previous report (the view and its bytes) and the odd flag
\* unchanged, so the next read targets the same buffer.
C4_SuppressKeepsBuffers ==
    [][ lastIn' \in {"ok", "timeout"} /\ out' = "Suppress" =>
          /\ gen'.prev_report = gen.prev_report
          /\ PrevBytes(gen') = PrevBytes(gen)
          /\ gen'.odd = gen.odd
          /\ CurrBuf(gen') = CurrBuf(gen) ]_vars

C4_Witness ==
    /\ lastIn = "ok" /\ out = "Suppress" /\ ~gen.odd
    /\ gen.data_even # Zeros(Len(gen.data_even))

\* C5: the buffer the next read writes into is never the buffer the retained
\* previous report is a view of; right after an Emit the retained report is
\* the filtered view just read; and a cycle that does not emit leaves the
\* bytes of the retained report as they were.
C5_PrevNeverOverwritten ==
    [][ /\ gen'.prev_report.buf # CurrBuf(gen')
        /\ (out' = "Emit" /\ lastIn' = "ok" =>
               /\ PrevBytes(gen') = lastRep'
               /\ gen'.prev_report.buf = CurrBuf(gen)
               /\ gen'.odd = ~gen.odd)
        /\ (out' # "Emit" => PrevBytes(gen') = PrevBytes(gen)) ]_vars

C5_Witness ==
    /\ out = "Emit" /\ gen.odd /\ gen.prev_report.buf = "even"
    /\ PrevBytes(gen) = lastRep

\* C6: a call that finds the accumulator (elapsed time added) below
\* floor(3*interval/4) yields Suppress without a USB read, leaves the timeout
\* counter, the retained report, the buffers and their roles unchanged, and
\* keeps the accumulated time.
C6_RateLimitFrame ==
    [][ gen.alive /\
        gen.poll_ms + ElapsedDelta(gen.t0, gen'.t0) < (3 * gen.interval) \div 4
          => /\ rd' = 0 /\ out' = "Suppress"
             /\ gen'.timeouts = gen.timeouts
             /\ gen'.prev_report = gen.prev_report
             /\ gen'.odd = gen.odd
             /\ gen'.data_odd = gen.data_odd /\ gen'.data_even = gen.data_even
             /\ gen'.poll_ms = gen.poll_ms + ElapsedDelta(gen.t0, gen'.t0)
             /\ gen'.poll_ms >= gen.poll_ms ]_vars

C6_Witness ==
    /\ lastIn = "ratelimit" /\ rd = 0 /\ out = "Suppress"
    /\ gen.poll_ms > 0 /\ gen.timeouts > 0 /\ ~gen.odd

\* C7: a call that finds the accumulator at or above the threshold clears it
\* and issues exactly one read, whatever the read's outcome; no call issues
\* more than one read.
C7_OneReadPerCycle ==
    [][ /\ rd' \in {0, 1}
        /\ (gen.alive /\
            gen.poll_ms + ElapsedDelta(gen.t0, gen'.t0) >= (3 * gen.interval) \div 4
              => gen'.poll_ms = 0 /\ rd' = 1
                 /\ lastIn' \in {"ok", "timeout", "error"}) ]_vars

C7_Witness ==
    /\ rd = 1 /\ lastIn = "timeout" /\ gen.poll_ms = 0 /\ gen.poll_target > 0

\* C8: a read that fails with a USB error other than a timeout signals Fatal
\* on that cycle, whatever the timeout counter, after a single read.
C8_FatalAtOnce ==
    [][ lastIn' = "error" => out' = "Fatal" /\ rd' = 1 /\ ~gen'.alive
                             /\ gen'.timeouts = gen.timeouts ]_vars

C8_Witness == out = "Fatal" /\ gen.timeouts = 0 /\ lastIn = "error"

\* C9: once Disconnected or Fatal was signalled the session issues no read
\* and yields nothing more.
C9_Terminal ==
    [][ (out \in {"Disconnected", "Fatal"}) =>
            /\ ~gen.alive
            /\ gen' = gen /\ out' = out /\ rd' = rd /\ lastIn' = lastIn ]_vars

C9_Witness == out = "Disconnected" /\ ~gen.alive

----------------------------------------------------------------------------
(* Properties of the scan *)

\* the device at position j is the first one the scan may match when cached
\* and unsupported devices before it are passed over
FirstFresh(devices, cache, j) ==
    /\ CacheKey(devices[j]) \notin cache
    /\ MatchType(devices[j].desc) # 0
    /\ \A i \in 1..(j - 1) :
          /\ ~AllZeros(DescBytes(devices[i].desc))
          /\ (CacheKey(devices[i]) \in cache \/ MatchType(devices[i].desc) = 0)

\* C10: a call that meets an already cached device passes it over and goes
\* on, so a supported device that is not yet cached and comes later in the
\* same enumeration is the one the call hands to InputDevice.
C10_CachedIsSkipped ==
    [][ attached' = attached =>
          \A j \in 1..Len(attached) :
             ( /\ FirstFresh(attached, device_cache, j)
               /\ \E i \in 1..(j - 1) : CacheKey(attached[i]) \in device_cache )
             => /\ result'.kind # "None"
                /\ CacheKey(attached[j]) \in device_cache'
                /\ (result'.kind = "Matched" =>
                      result'.port_numbers = attached[j].port_numbers) ]_vars

\* C11: over any sequence of calls that share one cache a fingerprint is
\* returned as Matched at most once, also when its device is unplugged and
\* plugged in again, and a call never removes a key from the cache.
C11_MatchedOnce ==
    [][ /\ device_cache \subseteq device_cache'
        /\ \A i, j \in 1..Len(sessions') : i # j => sessions'[i] # sessions'[j]
        /\ (Len(sessions') > Len(sessions) =>
              /\ result'.kind = "Matched"
              /\ result'.key \notin device_cache
              /\ result'.key \in device_cache') ]_vars

C11_Witness ==
    /\ Len(sessions) = 1
    /\ result.kind = "None" /\ result.at = 1
    /\ Len(attached) >= 1 /\ CacheKey(attached[1]) = sessions[1]

\* the scan of devices under cache reaches the all-zeros descriptor at
\* position z: every device before it is unsupported and not yet cached
ReachesZeros(devices, cache, z) ==
    /\ AllZeros(DescBytes(devices[z].desc))
    /\ \A i \in 1..(z - 1) :
          /\ ~AllZeros(DescBytes(devices[i].desc))
          /\ CacheKey(devices[i]) \notin cache
          /\ MatchType(devices[i].desc) = 0

\* C12: a call whose scan reads an all-zeros descriptor ends in ValueError,
\* does not add the key of that device to the cache and examines no device
\* after it (their keys are not added either), so a later call with the same
\* cache can still match them.
C12_ZeroDescriptor ==
    [][ attached' = attached =>
          \A z \in 1..Len(attached) :
             ReachesZeros(attached, device_cache, z) =>
                /\ result'.kind = "ValueError" /\ result'.at = z
                /\ CacheKey(attached[z]) \notin device_cache'
                /\ device_cache' =
                      device_cache \cup { CacheKey(attached[i]) : i \in 1..(z - 1) }
                /\ \A i \in (z + 1)..Len(attached) :
                      CacheKey(attached[i]) \in skipped'
                      /\ (CacheKey(attached[i]) \in device_cache'
                            => CacheKey(attached[i]) \in device_cache) ]_vars

\* a device that a call did not examine because of an all-zeros descriptor
\* before it is matched by a later call with the same cache
C12_Witness ==
    /\ result.kind = "Matched"
    /\ result.key \in skipped
    /\ \E d \in unplugged : AllZeros(DescBytes(d.desc))

\* the type the stated order gives a descriptor: an exact vendor:product
\* pair first, then the XInput class tuple, then the boot keyboard tuple
SignatureType(desc) ==
    LET exact == { <<1406, 8201, TYPE_SWITCH_PRO>>, <<2079, 58369, TYPE_ADAFRUIT_SNES>>,
                   <<11720, 36888, TYPE_8BITDO_ZERO2>>, <<8406, 42769, TYPE_POWERA_WIRED>> }
        hit   == { e \in exact : e[1] = desc.vid /\ e[2] = desc.pid }
    IN  IF hit # {} THEN (CHOOSE e \in hit : TRUE)[3]
        ELSE IF desc.d = <<255, 255>> /\ desc.i0 = <<255, 93>> THEN TYPE_XINPUT
        ELSE IF desc.d = <<0, 0>> /\ desc.i0 = <<3, 1>> THEN TYPE_BOOT_KEYBOARD
        ELSE 0

\* the scan of devices under cache examines the device at position j: every
\* device before it matches no signature and is not yet cached
ReachesFresh(devices, cache, j) ==
    /\ ~AllZeros(DescBytes(devices[j].desc))
    /\ CacheKey(devices[j]) \notin cache
    /\ \A i \in 1..(j - 1) :
          /\ ~AllZeros(DescBytes(devices[i].desc))
          /\ CacheKey(devices[i]) \notin cache
          /\ SignatureType(devices[i].desc) = 0

\* C13: the type given to a device follows the order vendor:product pairs,
\* then the XInput class tuple, then the boot keyboard class tuple, so a
\* device with an exact vendor:product pair and a matching class tuple gets
\* the vendor:product type; a device that matches nothing raises no error
\* and the scan goes on to the device after it.
C13_FirstMatchOrder ==
    [][ attached' = attached =>
          \A j \in 1..Len(attached) :
             ReachesFresh(attached, device_cache, j) =>
                LET t == SignatureType(attached[j].desc) IN
                /\ CacheKey(attached[j]) \in device_cache'
                /\ (t # 0 =>
                      /\ result'.at = j
                      /\ result'.kind # "None"
                      /\ (result'.kind = "Matched" =>
                            /\ result'.dev_type = t
                            /\ result'.key = CacheKey(attached[j])))
                /\ (t = 0 =>
                      /\ (result'.at = 0 \/ result'.at > j)
                      /\ (result'.at = 0 => result' = NoResult)
                      /\ (j = Len(attached) => result'.at = 0)) ]_vars

\* an unsupported device was passed over and the device after it, which has
\* the Switch Pro vendor:product pair and the XInput class tuple, was matched
C13_Witness ==
    /\ result.kind = "Matched" /\ result.at = 2
    /\ result.dev_type = TYPE_SWITCH_PRO
    /\ Len(attached) >= 2
    /\ attached[2].desc.d \o attached[2].desc.i0 = <<255, 255, 255, 93>>
    /\ CacheKey(attached[2]) = result.key

----------------------------------------------------------------------------
(* Properties of the handshakes *)

\* C14: the Switch Pro handshake writes its eight frames in their order, a
\* frame is written only when every frame before it has been answered, the
\* reads for a frame end at the first reply and are never more than eight,
\* and a handshake that succeeds has made 8 writes and 8 to 64 reads.
C14_HandshakeOrder ==
    [][ hs'.dev_type = TYPE_SWITCH_PRO =>
          /\ Len(hs'.writes) <= 8
          /\ hs'.writes = SubSeq(HandshakeMessages(hs'.player), 1, Len(hs'.writes))
          /\ (Len(hs'.writes) # Len(hs.writes) =>
                /\ Len(hs'.writes) = Len(hs.writes) + 1
                /\ hs.acks = Len(hs.writes))
          /\ hs'.tries <= 8
          /\ hs'.reads <= hs.reads + 1
          /\ hs'.acks <= Len(hs'.writes)
          /\ (hs'.last = "rd_ok" => hs'.pc \in {"write", "ok"} /\ hs'.acks = Len(hs'.writes))
          /\ (hs'.pc = "read" => hs'.acks = Len(hs'.writes) - 1 /\ hs'.tries < 8)
          /\ (hs'.pc = "ok" =>
                /\ Len(hs'.writes) = 8 /\ hs'.acks = 8
                /\ hs'.reads >= 8 /\ hs'.reads <= 64) ]_vars

\* a handshake that succeeded with the most reads possible, for player 2
C14_Witness ==
    /\ hs.pc = "ok" /\ hs.dev_type = TYPE_SWITCH_PRO /\ hs.player = 2
    /\ Len(hs.writes) = 8 /\ hs.reads = 64
    /\ hs.writes[7] = <<1, 10, 0, 0, 0, 0, 0, 0, 0, 0, 48, 3>>

\* C15: in the Switch Pro handshake a write that times out, or an eighth
\* read timeout in a row after a frame, ends the handshake in ValueError,
\* not in a USB error; after that nothing more is written and no
\* InputDevice exists.
C15_HandshakeGlitch ==
    [][ hs.dev_type = TYPE_SWITCH_PRO =>
          /\ (hs.pc = "write" /\ hs'.last = "wr_tmo" => hs'.pc = "ValueError")
          /\ (hs.pc = "read" /\ hs'.last = "rd_tmo" /\ hs.tries = 7 =>
                hs'.pc = "ValueError")
          /\ (hs'.pc = "ValueError" =>
                /\ hs'.last \in {"wr_tmo", "rd_tmo"}
                /\ hs'.writes = hs.writes
                /\ (hs'.last = "rd_tmo" => hs'.tries = 8))
          /\ (hs.pc = "ValueError" => hs' = hs) ]_vars

\* the third frame was written and its write timed out
C15_Witness ==
    /\ hs.pc = "ValueError" /\ hs.dev_type = TYPE_SWITCH_PRO
    /\ hs.last = "wr_tmo" /\ Len(hs.writes) = 2 /\ hs.k = 3

----------------------------------------------------------------------------
(* Properties of InputDevice.__init__ seen from the scan *)

\* C17: when the device the scan hands to InputDevice has no IN endpoint on
\* interface 0, the call fails for that device, whatever its type, and no
\* InputDevice is returned.
C17_NoInEndpointFails ==
    [][ attached' = attached =>
          \A j \in 1..Len(attached) :
             ( /\ ReachesFresh(attached, device_cache, j)
               /\ SignatureType(attached[j].desc) # 0
               /\ attached[j].desc.ins = 0 )
             => result'.kind \notin {"Matched", "None"} ]_vars

\* C18: the player of a session is 2 when the port path of its device is
\* (2,) and 1 for every other port path, whatever the device type and
\* however many sessions were created before it.
C18_PlayerFromPort ==
    result.kind = "Matched" =>
        /\ (result.port_numbers = <<2>> => result.player = 2)
        /\ (result.port_numbers # <<2>> => result.player = 1)
        /\ result.key[2] = result.port_numbers

\* the second session of a scan is on port (1, 1) and is player 1, the
\* first one was on port (2,)
C18_Witness ==
    /\ result.kind = "Matched" /\ Len(sessions) = 2
    /\ result.port_numbers = <<1, 1>> /\ result.player = 1
    /\ sessions[1][2] = <<2>>

----------------------------------------------------------------------------
(* Properties of the normalizers *)

\* C19: for the XInput type the value normalized from the two filtered
\* bytes [lo, hi] is hi * 256 + lo, the number (hi << 8) | lo, for every
\* pair of bytes; [0x00, 0x10] gives 0x1000.
C19_XInputRoundTrip ==
    out = "Emit" /\ raw.dev_type = TYPE_XINPUT =>
        /\ norm = raw.d[2] * 256 + raw.d[1]
        /\ norm % 256 = raw.d[1]
        /\ norm \div 256 = raw.d[2]
        /\ (raw.d = <<0, 16>> => norm = 4096)

C19_Witness ==
    /\ out = "Emit" /\ raw.dev_type = TYPE_XINPUT
    /\ raw.d = <<0, 16>> /\ norm = 4096

\* the direction bits the specification gives a BCD direction byte: N, NE,
\* E, SE, S, SW, W, NW for 0 to 7, none for any other byte
DirectionBits(d2) ==
    CASE d2 = 0 -> 1
      [] d2 = 1 -> 1 + 8
      [] d2 = 2 -> 8
      [] d2 = 3 -> 2 + 8
      [] d2 = 4 -> 2
      [] d2 = 5 -> 2 + 4
      [] d2 = 6 -> 4
      [] d2 = 7 -> 1 + 4
      [] OTHER  -> 0

\* C20: for the 8BitDo Zero2 and the PowerA Wired type the four direction
\* bits of the normalized value are those of N, NE, E, SE, S, SW, W, NW for
\* a direction byte 0 to 7 and are all clear for every other direction byte
\* (0x0f too), whatever the two button bytes are.
C20_BcdDpad ==
    out = "Emit" /\ raw.dev_type \in {TYPE_8BITDO_ZERO2, TYPE_POWERA_WIRED} =>
        norm % 16 = DirectionBits(raw.d[3])

\* every button bit set and the direction byte 0x0f: buttons, no direction
C20_Witness ==
    /\ out = "Emit" /\ raw.dev_type = TYPE_POWERA_WIRED
    /\ raw.d = <<255, 255, 15>>
    /\ norm % 16 = 0 /\ norm > 0

\* bit number b (0 is the lowest) of v is set
HasBit(v, b) == (v \div (2 ^ b)) % 2 = 1

\* C21: the boot keyboard value depends on report bytes 2, 3, 4 only (not
\* on the modifier byte, not on key-code slots 4 to 6); W or up-arrow in
\* one of the three slots gives UP without DOWN and A or left-arrow gives
\* LEFT without RIGHT, whatever else is held; codes (0x1a, 0, 0) give 1.
C21_KeyboardPriority ==
    out = "Emit" /\ raw.dev_type = TYPE_BOOT_KEYBOARD =>
        LET codes == {raw.d[3], raw.d[4], raw.d[5]} IN
        /\ (codes \cap {26, 82} # {} => HasBit(norm, 0) /\ ~HasBit(norm, 1))
        /\ (codes \cap {4, 80} # {} => HasBit(norm, 2) /\ ~HasBit(norm, 3))
        /\ (codes \cap {26, 82} = {} => (HasBit(norm, 1) <=> codes \cap {22, 81} # {}))
        /\ (codes \cap {4, 80} = {} => (HasBit(norm, 3) <=> codes \cap {7, 79} # {}))
        /\ norm = Normalize(TYPE_BOOT_KEYBOARD,
                            <<0, 0, raw.d[3], raw.d[4], raw.d[5], 0, 0, 0>>)
        /\ (<<raw.d[3], raw.d[4], raw.d[5]>> = <<26, 0, 0>> => norm = 1)

\* W and S in the first two slots, every modifier held, S, D, W in slots 4
\* to 6: UP alone
C21_Witness ==
    /\ out = "Emit" /\ raw.dev_type = TYPE_BOOT_KEYBOARD
    /\ raw.d = <<255, 0, 26, 22, 0, 22, 7, 26>>
    /\ norm = 1

----------------------------------------------------------------------------
(* Properties of the timing *)

\* C22: every value elapsed_ms_generator yields is the number of
\* milliseconds that passed since the call before, also when the tick
\* counter wrapped in between, and is never negative.
C22_TrueElapsedYielded ==
    clk.n > 0 => clk.delta = clk.elapsed /\ clk.delta >= 0

\* C23: the interval of the poll loop is bInterval for a low or full speed
\* device and floor(2^(bInterval-1) / 8) for a high speed device, and the
\* rate-limit threshold is floor(3 * interval / 4).
C23_IntervalConversion ==
    /\ gen.interval = IF dev.speed = SPEED_HIGH
                      THEN (2 ^ (dev.bInterval - 1)) \div 8
                      ELSE dev.bInterval
    /\ gen.poll_target = (3 * gen.interval) \div 4

----------------------------------------------------------------------------
(* Properties of the two tasks *)

\* C24: a step of the task of one player leaves the session of the other
\* player as it was (buffers, retained previous report, buffer role, timeout
\* counter, accumulator), in every interleaving of the two tasks.
C24_SessionsIsolated ==
    [][ \A p \in {1, 2} :
          tasks'.ran = p =>
             /\ tasks'.sess[3 - p] = tasks.sess[3 - p]
             /\ tasks'.sess[p].n = tasks.sess[p].n + 1 ]_vars

\* each task has read twice; task 1 just emitted a report into its even
\* buffer while the buffers of task 2 hold another report
C24_Witness ==
    /\ tasks.ran = 1
    /\ tasks.sess[1].out = "Emit"
    /\ tasks.sess[1].n >= 2 /\ tasks.sess[2].n >= 2
    /\ tasks.sess[2].gen.timeouts = 1
    /\ tasks.sess[1].gen.data_even # tasks.sess[2].gen.data_even
    /\ tasks.sess[1].gen.odd

----------------------------------------------------------------------------
(* Properties of the emitted values *)

\* the twelve canonical button bits, 0xF33F
CanonicalMask ==
    OrAll(0, <<UP, DOWN, LEFT, RIGHT, START, SELECT, L, R, B, A, Y, X>>)

\* C25: every emitted value, of every device type and every report, has
\* bits only among the twelve canonical button bits (mask 0xF33F)
C25_CanonicalBitsOnly ==
    out = "Emit" => BitAnd(norm, CanonicalMask) = norm

\* C26: within one session two consecutive emitted values are never equal:
\* the diff the caller computes is non-zero on every event after the first
C26_DiffNonZero ==
    out = "Emit" /\ tasks.events >= 2 => tasks.diff # 0

----------------------------------------------------------------------------
(* Properties of the failure paths *)

\* the result of a call is an exception raised by InputDevice.__init__ for
\* the device at position res.at
InitFailed(devices, res) ==
    /\ res.kind \in {"ValueError", "USBError"}
    /\ res.at > 0
    /\ ~AllZeros(DescBytes(devices[res.at].desc))

\* C27: the key of a device is recorded before its signature is tested and
\* before its InputDevice is made, so a call that ends in an error raised by
\* the initialization leaves the key of that device in the cache; a call
\* never removes a key and never matches a device whose key is cached, so
\* no later call with the same cache matches that device.
C27_FailedInitStaysCached ==
    [][ attached' = attached =>
          /\ (InitFailed(attached, result') =>
                /\ SignatureType(attached[result'.at].desc) # 0
                /\ CacheKey(attached[result'.at]) \notin device_cache
                /\ CacheKey(attached[result'.at]) \in device_cache')
          /\ device_cache \subseteq device_cache'
          /\ (result'.kind = "Matched" => result'.key \notin device_cache) ]_vars

\* a supported device whose initialization failed in an earlier call (its
\* key is cached and it was never matched) is met again: the call returns
\* None at its position
C27_Witness ==
    /\ Len(attached) >= 1
    /\ result = [NoResult EXCEPT !.at = 1]
    /\ SignatureType(attached[1].desc) = TYPE_SWITCH_PRO
    /\ CacheKey(attached[1]) \in device_cache
    /\ \A i \in 1..Len(sessions) : sessions[i] # CacheKey(attached[1])

----------------------------------------------------------------------------
(* Progress of the poll loop *)

====
